---------------------------- MODULE Spec2Model ----------------------------
(***************************************************************************)
(* A model of the Breakpoints registry of src/src/Breakpoints.ts.          *)
(*                                                                         *)
(* The registry is built once from an object mapping breakpoint names to   *)
(* pixel widths.  The constructor sorts the names by width and compiles,   *)
(* for five directive kinds, one CSS media-query condition per enumerated  *)
(* operand.  Afterwards consumers read it: shouldRenderMediaQuery,         *)
(* toRuleSets and three getters.                                           *)
(*                                                                         *)
(* JavaScript values are modelled by what the language does with them: a   *)
(* property lookup of an absent key gives undefined, undefined in          *)
(* arithmetic gives NaN, every comparison with NaN is false, the empty     *)
(* string and undefined are falsy, and a template literal prints them as   *)
(* "undefined" and "NaN".                                                  *)
(***************************************************************************)
EXTENDS Integers, Sequences, FiniteSets, TLC

(***************************************************************************)
(* Bounds of the model.                                                    *)
(***************************************************************************)
\* widths of breakpoints are drawn from 0..MaxWidth
MaxWidth == 2
\* a breakpoint object holds at most MaxBreakpoints keys
MaxBreakpoints == 3
\* the onlyRenderAt list holds at most MaxAvail names
MaxAvail == 2
\* the caller writes to its object at most MaxWrites times after construction
MaxWrites == 1

\* The names a caller may use as keys of the breakpoint object and as
\* operands.  The empty string is a legal key of a JavaScript object; "a-b"
\* and "b-a" are names that contain the separator breakpointKey joins with.
Names == {"", "a", "a-b", "b-a"}

Widths == 0 .. MaxWidth

VARIABLES
    breakpoints,        \* the object the caller passed; this._breakpoints is
                        \* a reference to the same object (line 35)
    sortedBreakpoints,  \* this._sortedBreakpoints
    mediaQueries,       \* this._mediaQueries: kind -> Map, a Map being the
                        \* sequence of its <<key, value>> entries in
                        \* insertion order
    phase,              \* "new", "ready" (constructed) or "failed" (the
                        \* constructor threw)
    last,               \* the call in progress: its operation, arguments
                        \* and outcome, until the caller takes the outcome
    writes              \* how often the caller has written to its object
                        \* since the construction

vars == <<breakpoints, sortedBreakpoints, mediaQueries, phase, last, writes>>

(***************************************************************************)
(* JavaScript values.                                                      *)
(***************************************************************************)
JSNum(n) == [k |-> "number", n |-> n, s |-> ""]
JSStr(s) == [k |-> "string", n |-> 0, s |-> s]
JSBool(b) == [k |-> "boolean", n |-> IF b THEN 1 ELSE 0, s |-> ""]
JSUndefined == [k |-> "undefined", n |-> 0, s |-> ""]
JSNaN == [k |-> "NaN", n |-> 0, s |-> ""]
JSInfinity == [k |-> "Infinity", n |-> 1, s |-> ""]
JSNegInfinity == [k |-> "Infinity", n |-> -1, s |-> ""]

\* ToBoolean
Truthy(v) ==
    CASE v.k = "number" -> v.n # 0
      [] v.k = "string" -> v.s # ""
      [] v.k = "boolean" -> v.n = 1
      [] v.k = "Infinity" -> TRUE
      [] OTHER -> FALSE

\* ToNumber of a number or of undefined
ToNumber(v) == IF v.k = "undefined" THEN JSNaN ELSE v

\* position of a number on the extended number line: <<class, value>>
Rank(v) == IF v.k = "Infinity" THEN <<v.n, 0>> ELSE <<0, v.n>>

\* a < b on numbers: false when either side is NaN
JSLess(a, b) ==
    LET x == ToNumber(a)
        y == ToNumber(b)
    IN  IF x.k = "NaN" \/ y.k = "NaN" THEN FALSE
        ELSE \/ Rank(x)[1] < Rank(y)[1]
             \/ Rank(x)[1] = Rank(y)[1] /\ Rank(x)[2] < Rank(y)[2]

\* a >= b on numbers: false when either side is NaN
JSGreaterEq(a, b) ==
    LET x == ToNumber(a)
        y == ToNumber(b)
    IN  IF x.k = "NaN" \/ y.k = "NaN" THEN FALSE
        ELSE ~JSLess(x, y)

\* v - 1
JSMinusOne(v) ==
    LET x == ToNumber(v)
    IN  IF x.k = "number" THEN JSNum(x.n - 1) ELSE x

\* `${v}` in a template literal
JSToString(v) ==
    CASE v.k = "number" -> ToString(v.n)
      [] v.k = "string" -> v.s
      [] v.k = "boolean" -> IF v.n = 1 THEN "true" ELSE "false"
      [] v.k = "undefined" -> "undefined"
      [] v.k = "NaN" -> "NaN"
      [] OTHER -> IF v.n = 1 THEN "Infinity" ELSE "-Infinity"

RECURSIVE MathMin(_)
\* Math.min(...values): Infinity for no argument, NaN when any is NaN
MathMin(values) ==
    IF values = <<>> THEN JSInfinity
    ELSE LET x == ToNumber(Head(values))
             r == MathMin(Tail(values))
         IN  IF x.k = "NaN" \/ r.k = "NaN" THEN JSNaN
             ELSE IF JSLess(r, x) THEN r ELSE x

RECURSIVE MathMax(_)
\* Math.max(...values): -Infinity for no argument, NaN when any is NaN
MathMax(values) ==
    IF values = <<>> THEN JSNegInfinity
    ELSE LET x == ToNumber(Head(values))
             r == MathMax(Tail(values))
         IN  IF x.k = "NaN" \/ r.k = "NaN" THEN JSNaN
             ELSE IF JSLess(x, r) THEN r ELSE x

\* object[name]: undefined when the object has no such key
Get(object, name) ==
    IF name \in DOMAIN object THEN JSNum(object[name]) ELSE JSUndefined

\* array.indexOf(x): the 0-based index of the first x, or -1
IndexOf(array, x) ==
    IF \E i \in 1 .. Len(array) : array[i] = x
    THEN (CHOOSE i \in 1 .. Len(array) :
              array[i] = x /\ \A j \in 1 .. (i - 1) : array[j] # x) - 1
    ELSE -1

\* array[i] for a 0-based index: undefined outside the array
ElementAt(array, i) ==
    IF i >= 0 /\ i < Len(array) THEN JSStr(array[i + 1]) ELSE JSUndefined

\* array.slice(from) for a 0-based from
SliceFrom(array, from) == SubSeq(array, from + 1, Len(array))

\* array.slice(0, -1)
SliceButLast(array) == SubSeq(array, 1, Len(array) - 1)

(***************************************************************************)
(* Outcomes of a call.                                                     *)
(***************************************************************************)
Return(v) == [k |-> "return", v |-> v]
Throw(message) == [k |-> "throw", v |-> message]

(***************************************************************************)
(* Directives (MediaBreakpointProps): an object with the directive kinds   *)
(* as keys, modelled as the sequence of its <<kind, operand>> entries in   *)
(* key order.  An operand is <<name>> for a string and <<name1, name2>>    *)
(* for the tuple of between.                                               *)
(***************************************************************************)
validKeys == <<"at", "lessThan", "greaterThan", "greaterThanOrEqual", "between">>

HasKey(breakpointProps, key) ==
    \E i \in 1 .. Len(breakpointProps) : breakpointProps[i][1] = key

\* breakpointProps[key], for a key the object has
Prop(breakpointProps, key) ==
    (CHOOSE e \in {breakpointProps[i] : i \in 1 .. Len(breakpointProps)} :
         e[1] = key)[2]

\* Object.keys(breakpointProps)[0]
propKey(breakpointProps) ==
    IF Len(breakpointProps) = 0 THEN JSUndefined
    ELSE JSStr(breakpointProps[1][1])

\* breakpoint.join("-") for a tuple, the name itself for a string
breakpointKey(breakpoint) ==
    IF Len(breakpoint) = 2 THEN breakpoint[1] \o "-" \o breakpoint[2]
    ELSE breakpoint[1]

\* JSON.stringify of a directive
StringifyOperand(operand) ==
    IF Len(operand) = 2
    THEN "[\"" \o operand[1] \o "\",\"" \o operand[2] \o "\"]"
    ELSE "\"" \o operand[1] \o "\""

RECURSIVE StringifyEntries(_)
StringifyEntries(entries) ==
    IF entries = <<>> THEN ""
    ELSE "\"" \o Head(entries)[1] \o "\":" \o StringifyOperand(Head(entries)[2])
         \o (IF Len(entries) > 1 THEN "," ELSE "")
         \o StringifyEntries(Tail(entries))

JSONStringify(breakpointProps) == "{" \o StringifyEntries(breakpointProps) \o "}"


(***************************************************************************)
(* Maps (the Map objects of _mediaQueries).                                *)
(***************************************************************************)
MapHas(map, key) == \E i \in 1 .. Len(map) : map[i][1] = key

\* map.get(key), for a key the map has
MapGet(map, key) == (CHOOSE e \in {map[i] : i \in 1 .. Len(map)} : e[1] = key)[2]

\* map.set(key, value): a key already present keeps its position and takes
\* the new value
MapSet(map, key, value) ==
    IF MapHas(map, key)
    THEN [i \in 1 .. Len(map) |->
              IF map[i][1] = key THEN <<key, value>> ELSE map[i]]
    ELSE Append(map, <<key, value>>)

(***************************************************************************)
(* The methods of Breakpoints.  `this` is the record of the instance's     *)
(* fields that the method reads.                                           *)
(***************************************************************************)

\* _normalizeProps: `if (breakpointProps.at)` and `to ?` test truthiness
_normalizeProps(this, breakpointProps) ==
    IF /\ HasKey(breakpointProps, "at")
       /\ Truthy(JSStr(Prop(breakpointProps, "at")[1]))
    THEN LET at == Prop(breakpointProps, "at")[1]
             fromIndex == IndexOf(this._sortedBreakpoints, at)
             to == ElementAt(this._sortedBreakpoints, fromIndex + 1)
         IN  IF Truthy(to)
             THEN << <<"between", <<at, to.s>>>> >>
             ELSE << <<"greaterThanOrEqual", <<at>>>> >>
    ELSE breakpointProps

\* _findNextBreakpoint without its check: for the last name it returns the
\* name it was given
FindNextBreakpoint_NoCheck(this, breakpoint) ==
    LET nextBreakpoint ==
            ElementAt(this._sortedBreakpoints,
                      IndexOf(this._sortedBreakpoints, breakpoint) + 1)
    IN  IF ~Truthy(nextBreakpoint) THEN Return(breakpoint)
        ELSE Return(nextBreakpoint.s)

\* _findNextBreakpoint: the name after `breakpoint`, or the error
_findNextBreakpoint(this, breakpoint) ==
    LET nextBreakpoint ==
            ElementAt(this._sortedBreakpoints,
                      IndexOf(this._sortedBreakpoints, breakpoint) + 1)
    IN  IF ~Truthy(nextBreakpoint)
        THEN Throw("There is no breakpoint larger than " \o breakpoint)
        ELSE Return(nextBreakpoint.s)

\* lessThan with the width itself as the maximum
LessThanQuery_WidthItself(width) ==
    "(max-width:" \o JSToString(width) \o "px)"

\* the four conditions _createBreakpointQuery builds from the widths
LessThanQuery(width) ==
    "(max-width:" \o JSToString(JSMinusOne(width)) \o "px)"

GreaterThanQuery(width) ==
    "(min-width:" \o JSToString(width) \o "px)"

GreaterThanOrEqualQuery(width) ==
    "(min-width:" \o JSToString(width) \o "px)"

BetweenQuery(fromWidth, toWidth) ==
    "(min-width:" \o JSToString(fromWidth) \o "px) and (max-width:"
        \o JSToString(JSMinusOne(toWidth)) \o "px)"

\* _createBreakpointQuery
_createBreakpointQuery(this, breakpointProps0) ==
    LET breakpointProps == _normalizeProps(this, breakpointProps0)
        key == propKey(breakpointProps)
    IN  CASE key = JSStr("lessThan") ->
                Return(LessThanQuery(
                    Get(this._breakpoints, Prop(breakpointProps, "lessThan")[1])))
          [] key = JSStr("greaterThan") ->
                LET next == _findNextBreakpoint(
                                this, Prop(breakpointProps, "greaterThan")[1])
                IN  IF next.k = "throw" THEN next
                    ELSE Return(GreaterThanQuery(Get(this._breakpoints, next.v)))
          [] key = JSStr("greaterThanOrEqual") ->
                Return(GreaterThanOrEqualQuery(
                    Get(this._breakpoints,
                        Prop(breakpointProps, "greaterThanOrEqual")[1])))
          [] key = JSStr("between") ->
                Return(BetweenQuery(
                    Get(this._breakpoints, Prop(breakpointProps, "between")[1]),
                    Get(this._breakpoints, Prop(breakpointProps, "between")[2])))
          [] OTHER ->
                Throw("Unexpected breakpoint props: "
                          \o JSONStringify(breakpointProps))

RECURSIVE ReduceQueries(_, _, _, _)
\* the reduce of _createBreakpointQueries from the accumulator `map` on; a
\* throw of _createBreakpointQuery ends it
ReduceQueries(this, key, forBreakpoints, map) ==
    IF forBreakpoints = <<>> THEN Return(map)
    ELSE LET breakpoint == Head(forBreakpoints)
             query == _createBreakpointQuery(this, << <<key, breakpoint>> >>)
         IN  IF query.k = "throw" THEN query
             ELSE ReduceQueries(this, key, Tail(forBreakpoints),
                                MapSet(map, breakpointKey(breakpoint), query.v))

\* _createBreakpointQueries
_createBreakpointQueries(this, key, forBreakpoints) ==
    ReduceQueries(this, key, forBreakpoints, <<>>)

\* the operand <<name>> of every name of a list
Operands(names) == [i \in 1 .. Len(names) |-> <<names[i]>>]

RECURSIVE betweenCombinations(_)
\* every pair <<sorted[i], sorted[j]>> with i < j, by i and then by j
betweenCombinations(sorted) ==
    IF Len(sorted) <= 1 THEN <<>>
    ELSE [j \in 1 .. (Len(sorted) - 1) |-> <<sorted[1], sorted[j + 1]>>]
         \o betweenCombinations(Tail(sorted))

\* The outcomes of Object.keys(...).map(...).sort(...).map(...): the keys
\* in ascending order of width.  The comparator never answers 0, so for two
\* keys of equal width the order is up to the engine: every order of them
\* is an outcome.
SortOutcomes(object) ==
    LET n == Cardinality(DOMAIN object)
    IN  {order \in [1 .. n -> DOMAIN object] :
             /\ \A i, j \in 1 .. n : i # j => order[i] # order[j]
             /\ \A i \in 1 .. (n - 1) : object[order[i]] <= object[order[i + 1]]}

\* The object literal of the constructor: the five maps, built in the order
\* written; the first throw ends the construction.
CreateMediaQueries(this) ==
    LET sorted == this._sortedBreakpoints
        at == _createBreakpointQueries(this, "at", Operands(sorted))
        lessThan ==
            _createBreakpointQueries(this, "lessThan",
                                     Operands(SliceFrom(sorted, 1)))
        greaterThan ==
            _createBreakpointQueries(this, "greaterThan",
                                     Operands(SliceButLast(sorted)))
        greaterThanOrEqual ==
            _createBreakpointQueries(this, "greaterThanOrEqual", Operands(sorted))
        between ==
            _createBreakpointQueries(this, "between", betweenCombinations(sorted))
    IN  CASE at.k = "throw" -> at
          [] lessThan.k = "throw" -> lessThan
          [] greaterThan.k = "throw" -> greaterThan
          [] greaterThanOrEqual.k = "throw" -> greaterThanOrEqual
          [] between.k = "throw" -> between
          [] OTHER -> Return([at |-> at.v,
                              lessThan |-> lessThan.v,
                              greaterThan |-> greaterThan.v,
                              greaterThanOrEqual |-> greaterThanOrEqual.v,
                              between |-> between.v])

\* the instance as the methods see it
Self ==
    [_breakpoints |-> breakpoints,
     _sortedBreakpoints |-> sortedBreakpoints,
     _mediaQueries |-> mediaQueries]


\* lessThan tested against the highest allowed width
AdmitLessThan_Highest(width, allowedWidths) ==
    JSLess(MathMax(allowedWidths), width)

\* lessThan tested with <= for <
AdmitLessThan_OrEqual(width, allowedWidths) ==
    ~JSLess(width, MathMin(allowedWidths))

\* between with fromWidth where toWidth belongs
AdmitBetween_FromTwice(fromWidth, toWidth, allowedWidths) ==
    ~(\/ JSLess(MathMax(allowedWidths), fromWidth)
      \/ JSGreaterEq(MathMin(allowedWidths), fromWidth))

\* the four admission tests of shouldRenderMediaQuery
AdmitLessThan(width, allowedWidths) ==
    JSLess(MathMin(allowedWidths), width)

AdmitGreaterThan(width, allowedWidths) ==
    JSGreaterEq(MathMax(allowedWidths), width)

AdmitGreaterThanOrEqual(width, allowedWidths) ==
    JSGreaterEq(MathMax(allowedWidths), width)

AdmitBetween(fromWidth, toWidth, allowedWidths) ==
    ~(\/ JSLess(MathMax(allowedWidths), fromWidth)
      \/ JSGreaterEq(MathMin(allowedWidths), toWidth))

\* shouldRenderMediaQuery: a switch without default, so a key it has no
\* case for falls through to the end of the function, which returns
\* undefined
shouldRenderMediaQuery(this, breakpointProps0, onlyRenderAt) ==
    LET breakpointProps == _normalizeProps(this, breakpointProps0)
        key == propKey(breakpointProps)
        allowedWidths ==
            [i \in 1 .. Len(onlyRenderAt) |->
                 Get(this._breakpoints, onlyRenderAt[i])]
    IN  CASE key = JSStr("lessThan") ->
                Return(JSBool(AdmitLessThan(
                    Get(this._breakpoints, Prop(breakpointProps, "lessThan")[1]),
                    allowedWidths)))
          [] key = JSStr("greaterThan") ->
                LET next == _findNextBreakpoint(
                                this, Prop(breakpointProps, "greaterThan")[1])
                IN  IF next.k = "throw" THEN next
                    ELSE Return(JSBool(AdmitGreaterThan(
                             Get(this._breakpoints, next.v), allowedWidths)))
          [] key = JSStr("greaterThanOrEqual") ->
                Return(JSBool(AdmitGreaterThanOrEqual(
                    Get(this._breakpoints,
                        Prop(breakpointProps, "greaterThanOrEqual")[1]),
                    allowedWidths)))
          [] key = JSStr("between") ->
                Return(JSBool(AdmitBetween(
                    Get(this._breakpoints, Prop(breakpointProps, "between")[1]),
                    Get(this._breakpoints, Prop(breakpointProps, "between")[2]),
                    allowedWidths)))
          [] OTHER -> Return(JSUndefined)

\* createClassName(type, breakpoint): the class name of a rule set, which
\* encodes the kind and the operand key
createClassName(type, breakpoint) == <<type, breakpoint>>

\* createRuleSet(className, query): a rule set entry, the pair of a class
\* name and a rule body
createRuleSet(className, query) == [className |-> className, body |-> query]

\* the query as it is, not inverted
InvertedQuery_NotInverted(query) == query

\* the rule body toRuleSets gives createRuleSet
InvertedQuery(query) == "not all and " \o query

\* queries.forEach(...) of toRuleSets for the map of one kind
RuleSetsOf(type, queries) ==
    [i \in 1 .. Len(queries) |->
         createRuleSet(createClassName(type, queries[i][1]),
                       InvertedQuery(queries[i][2]))]

RECURSIVE RuleSetsFrom(_, _)
\* the reduce of toRuleSets over the remaining kinds
RuleSetsFrom(this, types) ==
    IF types = <<>> THEN <<>>
    ELSE RuleSetsOf(Head(types), this._mediaQueries[Head(types)])
         \o RuleSetsFrom(this, Tail(types))

\* toRuleSets: Object.entries(this._mediaQueries) goes through the kinds in
\* the order of the object literal
toRuleSets(this) == RuleSetsFrom(this, validKeys)

getMediaQueryTypes(this) == this._sortedBreakpoints

\* getDynamicResponsiveMediaQueries: the object name -> condition of the
\* at map
getDynamicResponsiveMediaQueries(this) ==
    LET at == this._mediaQueries.at
    IN  [name \in {at[i][1] : i \in 1 .. Len(at)} |-> MapGet(at, name)]

getLargestBreakpoint(this) ==
    ElementAt(this._sortedBreakpoints, Len(this._sortedBreakpoints) - 1)

(***************************************************************************)
(* The inputs.                                                             *)
(***************************************************************************)
\* the objects a caller may construct a registry from
BreakpointObjects ==
    UNION {[keys -> Widths] :
               keys \in {K \in SUBSET Names : Cardinality(K) <= MaxBreakpoints}}

SingleKinds == {"at", "lessThan", "greaterThan", "greaterThanOrEqual"}

\* a directive of exactly one kind
OneKindProps ==
    {<< <<kind, <<name>>>> >> : kind \in SingleKinds, name \in Names}
    \cup {<< <<"between", <<name1, name2>>>> >> : name1 \in Names, name2 \in Names}

\* a directive of two kinds, in either key order
TwoKindProps ==
    {<< <<kinds[1], <<name>>>>, <<kinds[2], <<name>>>> >> :
         kinds \in {pair \in SingleKinds \X SingleKinds : pair[1] # pair[2]},
         name \in Names}

\* the directive values a caller may pass: no kind, one kind, two kinds
Props == {<<>>} \cup OneKindProps \cup TwoKindProps

\* the lists a caller may pass as onlyRenderAt
RenderLists ==
    {list \in UNION {[1 .. n -> Names] : n \in 0 .. MaxAvail} :
         \A i, j \in 1 .. Len(list) : i # j => list[i] # list[j]}

(***************************************************************************)
(* The state machine.                                                      *)
(***************************************************************************)
NoCall ==
    [op |-> "none", props |-> <<>>, onlyRenderAt |-> <<>>,
     outcome |-> Return(JSUndefined)]

Call(op, props, onlyRenderAt, outcome) ==
    [op |-> op, props |-> props, onlyRenderAt |-> onlyRenderAt,
     outcome |-> outcome]

NoQueries ==
    [at |-> <<>>, lessThan |-> <<>>, greaterThan |-> <<>>,
     greaterThanOrEqual |-> <<>>, between |-> <<>>]

\* before `new Breakpoints(breakpoints)`: the caller holds its object
Init ==
    /\ breakpoints \in BreakpointObjects
    /\ sortedBreakpoints = <<>>
    /\ mediaQueries = NoQueries
    /\ phase = "new"
    /\ last = NoCall
    /\ writes = 0

\* new Breakpoints(breakpoints): the whole constructor
Construct ==
    /\ phase = "new"
    /\ \E order \in SortOutcomes(breakpoints) :
           LET made == CreateMediaQueries(
                           [_breakpoints |-> breakpoints,
                            _sortedBreakpoints |-> order])
           IN  /\ sortedBreakpoints' = order
               /\ IF made.k = "return"
                  THEN /\ mediaQueries' = made.v
                       /\ phase' = "ready"
                       /\ last' = NoCall
                  ELSE /\ mediaQueries' = mediaQueries
                       /\ phase' = "failed"
                       /\ last' = Call("constructor", <<>>, <<>>, made)
    /\ UNCHANGED <<breakpoints, writes>>

\* a consumer may call when the registry is constructed and no call is in
\* progress
Idle == phase = "ready" /\ last = NoCall

ShouldRenderMediaQuery ==
    /\ Idle
    /\ \E props \in Props, onlyRenderAt \in RenderLists :
           last' = Call("shouldRenderMediaQuery", props, onlyRenderAt,
                        shouldRenderMediaQuery(Self, props, onlyRenderAt))
    /\ UNCHANGED <<breakpoints, sortedBreakpoints, mediaQueries, phase, writes>>

\* a call of the private _createBreakpointQuery on the instance
CreateBreakpointQuery ==
    /\ Idle
    /\ \E props \in Props :
           last' = Call("_createBreakpointQuery", props, <<>>,
                        _createBreakpointQuery(Self, props))
    /\ UNCHANGED <<breakpoints, sortedBreakpoints, mediaQueries, phase, writes>>

ToRuleSets ==
    /\ Idle
    /\ last' = Call("toRuleSets", <<>>, <<>>, Return(toRuleSets(Self)))
    /\ UNCHANGED <<breakpoints, sortedBreakpoints, mediaQueries, phase, writes>>

GetMediaQueryTypes ==
    /\ Idle
    /\ last' = Call("getMediaQueryTypes", <<>>, <<>>,
                    Return(getMediaQueryTypes(Self)))
    /\ UNCHANGED <<breakpoints, sortedBreakpoints, mediaQueries, phase, writes>>

GetDynamicResponsiveMediaQueries ==
    /\ Idle
    /\ last' = Call("getDynamicResponsiveMediaQueries", <<>>, <<>>,
                    Return(getDynamicResponsiveMediaQueries(Self)))
    /\ UNCHANGED <<breakpoints, sortedBreakpoints, mediaQueries, phase, writes>>

GetLargestBreakpoint ==
    /\ Idle
    /\ last' = Call("getLargestBreakpoint", <<>>, <<>>,
                    Return(getLargestBreakpoint(Self)))
    /\ UNCHANGED <<breakpoints, sortedBreakpoints, mediaQueries, phase, writes>>

\* the caller takes the outcome of the call in progress
TakeOutcome ==
    /\ last # NoCall
    /\ last' = NoCall
    /\ UNCHANGED <<breakpoints, sortedBreakpoints, mediaQueries, phase, writes>>

Next ==
    \/ Construct
    \/ ShouldRenderMediaQuery
    \/ CreateBreakpointQuery
    \/ ToRuleSets
    \/ GetMediaQueryTypes
    \/ GetDynamicResponsiveMediaQueries
    \/ GetLargestBreakpoint
    \/ TakeOutcome

Spec == Init /\ [][Next]_vars

\* The caller assigns a width to a key of the object it constructed the
\* registry from.  The constructor kept a reference to that object, not a
\* copy, so the write is a write to this._breakpoints.
CallerWrites ==
    /\ Idle
    /\ writes < MaxWrites
    /\ \E name \in DOMAIN breakpoints, width \in Widths :
           /\ breakpoints[name] # width
           /\ breakpoints' = [breakpoints EXCEPT ![name] = width]
    /\ writes' = writes + 1
    /\ UNCHANGED <<sortedBreakpoints, mediaQueries, phase, last>>

NextAliased ==
    \/ Next
    \/ CallerWrites

\* the registry together with a caller that keeps using its object
SpecAliased == Init /\ [][NextAliased]_vars


(***************************************************************************)
(* The vocabulary of the properties: the breakpoint set as the caller's    *)
(* object describes it, the table of conditions, and the widths a          *)
(* condition matches.                                                      *)
(***************************************************************************)
Ready == phase = "ready"

Known(name) == name \in DOMAIN breakpoints

Width(name) == breakpoints[name]

DistinctWidths ==
    \A name1, name2 \in DOMAIN breakpoints :
        name1 # name2 => Width(name1) # Width(name2)

\* by width: some breakpoint is wider than b
HasWider(b) == \E name \in DOMAIN breakpoints : Width(name) > Width(b)

\* by width: the narrowest breakpoint wider than b
NextWider(b) ==
    CHOOSE name \in DOMAIN breakpoints :
        /\ Width(name) > Width(b)
        /\ \A other \in DOMAIN breakpoints :
               Width(other) > Width(b) => Width(name) <= Width(other)

\* by position: b is the last name of the sorted sequence
IsLast(b) ==
    /\ sortedBreakpoints # <<>>
    /\ sortedBreakpoints[Len(sortedBreakpoints)] = b

\* by position: the name that follows b in the sorted sequence
Following(b) ==
    sortedBreakpoints[1 + CHOOSE i \in 1 .. Len(sortedBreakpoints) :
                              sortedBreakpoints[i] = b]

OneKind(props) == Len(props) = 1

KindOf(props) == props[1][1]

OperandOf(props) == props[1][2]

\* every name the directive mentions is a key of the breakpoint set
KnownOperands(props) ==
    \A i \in 1 .. Len(props) :
        \A j \in 1 .. Len(props[i][2]) : Known(props[i][2][j])

KnownList(list) == \A i \in 1 .. Len(list) : Known(list[i])

MaxWidthText(width) == "(max-width:" \o ToString(width) \o "px)"

MinWidthText(width) == "(min-width:" \o ToString(width) \o "px)"

BetweenText(from, to) == MinWidthText(from) \o " and " \o MaxWidthText(to - 1)

\* the condition of the table of Query Compilation, next(b) being the
\* narrowest wider breakpoint
TableCondition(props) ==
    LET b == OperandOf(props)[1]
    IN  CASE KindOf(props) = "lessThan" -> MaxWidthText(Width(b) - 1)
          [] KindOf(props) = "greaterThan" -> MinWidthText(Width(NextWider(b)))
          [] KindOf(props) = "greaterThanOrEqual" -> MinWidthText(Width(b))
          [] KindOf(props) = "between" ->
                BetweenText(Width(b), Width(OperandOf(props)[2]))
          [] KindOf(props) = "at" ->
                IF HasWider(b) THEN BetweenText(Width(b), Width(NextWider(b)))
                ELSE MinWidthText(Width(b))

\* a directive the table gives a condition for
Compilable(props) ==
    /\ OneKind(props)
    /\ KnownOperands(props)
    /\ KindOf(props) = "greaterThan" => HasWider(OperandOf(props)[1])

\* C1: for a breakpoint set of distinct widths and a directive over its
\* names, _createBreakpointQuery returns exactly the condition of the table:
\* (max-width:<width(b)-1>px) for lessThan(b), (min-width:<width(next(b))>px)
\* for greaterThan(b) with b not the largest, (min-width:<width(b)>px) for
\* greaterThanOrEqual(b), both for between(b1,b2), and for at(b) the
\* condition of between(b, next(b)), or of greaterThanOrEqual(b) when b is
\* the largest.
C1_CompiledConditionIsTheTable ==
    (/\ last.op = "_createBreakpointQuery"
     /\ DistinctWidths
     /\ Compilable(last.props))
    => last.outcome = Return(TableCondition(last.props))

\* C1 happens: at(b) of a breakpoint that is not the largest was compiled
C1_Witness ==
    /\ last.op = "_createBreakpointQuery"
    /\ DistinctWidths
    /\ Compilable(last.props)
    /\ KindOf(last.props) = "at"
    /\ HasWider(OperandOf(last.props)[1])
    /\ last.outcome.k = "return"


(***************************************************************************)
(* Render admission.                                                       *)
(***************************************************************************)
ListWidths(list) == {Width(list[i]) : i \in 1 .. Len(list)}

MinOf(S) == CHOOSE x \in S : \A y \in S : x <= y

MaxOf(S) == CHOOSE x \in S : \A y \in S : x >= y

\* a call of shouldRenderMediaQuery with a non-empty list of known names
AdmissionAsked ==
    /\ last.op = "shouldRenderMediaQuery"
    /\ last.onlyRenderAt # <<>>
    /\ KnownList(last.onlyRenderAt)

\* at(b) as _createBreakpointQuery reads it: between(b, next(b)), or
\* greaterThanOrEqual(b) for the last name of the sorted sequence
Normalized(props) ==
    IF KindOf(props) = "at"
    THEN LET b == OperandOf(props)[1]
         IN  IF IsLast(b) THEN << <<"greaterThanOrEqual", <<b>>>> >>
             ELSE << <<"between", <<b, Following(b)>>>> >>
    ELSE props

\* the rule of Render-Admission Decision for a directive that is not at(b)
AdmissionRule(props, list) ==
    LET b == OperandOf(props)[1]
        low == MinOf(ListWidths(list))
        high == MaxOf(ListWidths(list))
    IN  CASE KindOf(props) = "lessThan" -> low < Width(b)
          [] KindOf(props) = "greaterThan" -> high >= Width(Following(b))
          [] KindOf(props) = "greaterThanOrEqual" -> high >= Width(b)
          [] KindOf(props) = "between" ->
                ~(high < Width(b) \/ low >= Width(OperandOf(props)[2]))

\* C2: for a directive over known names and a non-empty list of known
\* names, shouldRenderMediaQuery normalizes at(b) as compilation does and
\* returns: for lessThan(b), min(available) < width(b); for greaterThan(b)
\* with b not the largest, max(available) >= width(next(b)); for
\* greaterThanOrEqual(b), max(available) >= width(b); for between(b1,b2),
\* not (max(available) < width(b1) or min(available) >= width(b2)).
C2_AdmissionFollowsTheRule ==
    (/\ AdmissionAsked
     /\ OneKind(last.props)
     /\ KnownOperands(last.props)
     /\ KindOf(last.props) = "greaterThan" => ~IsLast(OperandOf(last.props)[1]))
    => last.outcome =
           Return(JSBool(AdmissionRule(Normalized(last.props), last.onlyRenderAt)))

\* C2 happens: at(b) of a breakpoint with a next one was admitted for a list
\* of two names
C2_Witness ==
    /\ AdmissionAsked
    /\ Len(last.onlyRenderAt) = 2
    /\ OneKind(last.props)
    /\ KnownOperands(last.props)
    /\ KindOf(last.props) = "at"
    /\ ~IsLast(OperandOf(last.props)[1])
    /\ last.outcome = Return(JSBool(TRUE))

\* the viewport widths looked at: every breakpoint width, and one beyond
Viewports == 0 .. (MaxWidth + 1)

\* a directive of one kind over known names that compiles: greaterThan not
\* of the largest breakpoint, between of a narrower and a wider breakpoint
ValidDirective(props) ==
    /\ Compilable(props)
    /\ KindOf(props) = "between" =>
           Width(OperandOf(props)[1]) < Width(OperandOf(props)[2])

\* the viewport width lies in the width range the directive compiles to
Matches(props, viewport) ==
    LET b == OperandOf(props)[1]
    IN  CASE KindOf(props) = "lessThan" -> viewport <= Width(b) - 1
          [] KindOf(props) = "greaterThan" -> viewport >= Width(NextWider(b))
          [] KindOf(props) = "greaterThanOrEqual" -> viewport >= Width(b)
          [] KindOf(props) = "between" ->
                /\ viewport >= Width(b)
                /\ viewport <= Width(OperandOf(props)[2]) - 1
          [] KindOf(props) = "at" ->
                /\ viewport >= Width(b)
                /\ HasWider(b) => viewport <= Width(NextWider(b)) - 1

\* the viewport width lies in the band of breakpoint x: from its width up to
\* the next wider breakpoint, or without end for the largest
InBand(x, viewport) ==
    /\ viewport >= Width(x)
    /\ HasWider(x) => viewport < Width(NextWider(x))

\* some available breakpoint has a viewport width in its band that the
\* directive matches
MatchesInSomeBand(props, list) ==
    \E i \in 1 .. Len(list), viewport \in Viewports :
        InBand(list[i], viewport) /\ Matches(props, viewport)

\* C3: for distinct widths, a valid directive and a non-empty list of known
\* names, when shouldRenderMediaQuery returns false no viewport width in
\* the band of an available breakpoint matches the directive.
C3_RejectedNeverMatches ==
    (/\ AdmissionAsked
     /\ DistinctWidths
     /\ ValidDirective(last.props)
     /\ last.outcome = Return(JSBool(FALSE)))
    => ~MatchesInSomeBand(last.props, last.onlyRenderAt)

\* C3 happens: a between directive was rejected
C3_Witness ==
    /\ AdmissionAsked
    /\ DistinctWidths
    /\ ValidDirective(last.props)
    /\ KindOf(last.props) = "between"
    /\ last.outcome = Return(JSBool(FALSE))

\* C4: greaterThan(b) of the largest breakpoint fails with an error that
\* names b, when compiled and when passed to shouldRenderMediaQuery with any
\* list.
C4_GreaterThanLargestThrows ==
    (/\ last.op \in {"_createBreakpointQuery", "shouldRenderMediaQuery"}
     /\ OneKind(last.props)
     /\ KindOf(last.props) = "greaterThan"
     /\ IsLast(OperandOf(last.props)[1]))
    => last.outcome =
           Throw("There is no breakpoint larger than " \o OperandOf(last.props)[1])

\* C4 happens: shouldRenderMediaQuery threw for greaterThan of the largest
\* of three breakpoints
C4_Witness ==
    /\ last.op = "shouldRenderMediaQuery"
    /\ Len(sortedBreakpoints) = 3
    /\ last.onlyRenderAt # <<>>
    /\ OneKind(last.props)
    /\ KindOf(last.props) = "greaterThan"
    /\ IsLast(OperandOf(last.props)[1])
    /\ last.outcome.k = "throw"

\* C5: a name absent from the (non-empty) breakpoint set, as an operand of
\* a directive or in the (non-empty) list, is surfaced as an error by
\* compilation and by shouldRenderMediaQuery.
C5_UnknownNameIsAnError ==
    (/\ last.op \in {"_createBreakpointQuery", "shouldRenderMediaQuery"}
     /\ last.op = "shouldRenderMediaQuery" => last.onlyRenderAt # <<>>
     /\ DOMAIN breakpoints # {}
     /\ OneKind(last.props)
     /\ ~KnownOperands(last.props) \/ ~KnownList(last.onlyRenderAt))
    => last.outcome.k = "throw"

\* C6: compiling a directive with no kind or with more than one kind (over
\* known names) is rejected with an error.
C6_InvalidShapeIsRejected ==
    (/\ last.op = "_createBreakpointQuery"
     /\ ~OneKind(last.props)
     /\ KnownOperands(last.props))
    => last.outcome.k = "throw"


(***************************************************************************)
(* The query maps and the rule sets.                                       *)
(***************************************************************************)
\* C7, its last clause: after construction from distinct widths the between
\* map holds, for every pair (sequence[i], sequence[j]) with i < j, under
\* the key "name1-name2", the condition compiled for that pair, one entry
\* per pair.
C7_BetweenMapHoldsEveryPair ==
    (Ready /\ DistinctWidths) =>
        LET n == Len(sortedBreakpoints)
        IN  /\ 2 * Len(mediaQueries.between) = n * (n - 1)
            /\ \A i, j \in 1 .. n :
                   i < j =>
                       LET key == sortedBreakpoints[i] \o "-" \o sortedBreakpoints[j]
                       IN  /\ MapHas(mediaQueries.between, key)
                           /\ MapGet(mediaQueries.between, key) =
                                  BetweenText(Width(sortedBreakpoints[i]),
                                              Width(sortedBreakpoints[j]))

Kinds == {validKeys[i] : i \in 1 .. Len(validKeys)}

\* C8: toRuleSets returns exactly one entry per compiled query of the five
\* maps, and the body of each entry is "not all and " followed by the
\* compiled condition of the kind and key its class name encodes.
C8_OneInvertedRuleSetPerQuery ==
    last.op = "toRuleSets" =>
        LET entries == last.outcome.v
        IN  /\ Len(entries) =
                   Len(mediaQueries.at) + Len(mediaQueries.lessThan)
                   + Len(mediaQueries.greaterThan)
                   + Len(mediaQueries.greaterThanOrEqual)
                   + Len(mediaQueries.between)
            /\ \A kind \in Kinds :
                   \A q \in 1 .. Len(mediaQueries[kind]) :
                       Cardinality({e \in 1 .. Len(entries) :
                                        entries[e].className =
                                            <<kind, mediaQueries[kind][q][1]>>}) = 1
            /\ \A e \in 1 .. Len(entries) :
                   LET kind == entries[e].className[1]
                       key == entries[e].className[2]
                   IN  /\ kind \in Kinds
                       /\ MapHas(mediaQueries[kind], key)
                       /\ entries[e].body =
                              "not all and " \o MapGet(mediaQueries[kind], key)

\* C8 happens: toRuleSets returned the rule sets of three breakpoints
C8_Witness ==
    /\ last.op = "toRuleSets"
    /\ Len(sortedBreakpoints) = 3
    /\ Len(last.outcome.v) > Len(mediaQueries.at)

\* C9, its last clause: at any time after construction, whatever the
\* consumers called and whatever the caller did to the object it passed,
\* the widths shouldRenderMediaQuery reads from this._breakpoints are the
\* widths the stored conditions were compiled from: the names are those of
\* the sorted sequence, in ascending order of width, and the stored
\* greaterThanOrEqual condition of each is (min-width:<its width>px).
C9_WidthsAreThoseCompiled ==
    Ready =>
        /\ DOMAIN Self._breakpoints =
               {sortedBreakpoints[i] : i \in 1 .. Len(sortedBreakpoints)}
        /\ \A i \in 1 .. Len(sortedBreakpoints) :
               /\ MapGet(mediaQueries.greaterThanOrEqual, sortedBreakpoints[i]) =
                      MinWidthText(Self._breakpoints[sortedBreakpoints[i]])
               /\ \A j \in 1 .. Len(sortedBreakpoints) :
                      i < j => Self._breakpoints[sortedBreakpoints[i]]
                                   <= Self._breakpoints[sortedBreakpoints[j]]

\* C10 as stated: for distinct widths, a valid directive and a non-empty
\* list of known names, when shouldRenderMediaQuery returns true some
\* available breakpoint has a viewport width in its band that matches the
\* directive.
C10_AdmittedMatchesInSomeBand ==
    (/\ AdmissionAsked
     /\ DistinctWidths
     /\ ValidDirective(last.props)
     /\ last.outcome = Return(JSBool(TRUE)))
    => MatchesInSomeBand(last.props, last.onlyRenderAt)

\* a viewport width that matches the directive lies between the narrowest
\* available width and the end of the band of the widest available
\* breakpoint
MatchesWithinSpan(props, list) ==
    LET low == MinOf(ListWidths(list))
        widest == CHOOSE x \in {list[i] : i \in 1 .. Len(list)} :
                      Width(x) = MaxOf(ListWidths(list))
    IN  \E viewport \in Viewports :
            /\ viewport >= low
            /\ HasWider(widest) => viewport < Width(NextWider(widest))
            /\ Matches(props, viewport)

\* C10 amended: when shouldRenderMediaQuery returns true, then for
\* lessThan, greaterThan and greaterThanOrEqual some available breakpoint
\* has a matching viewport width in its band, and for between and at a
\* matching viewport width lies between the narrowest available width and
\* the end of the band of the widest available breakpoint.
C10_AdmittedMatchesWithinSpan ==
    (/\ AdmissionAsked
     /\ DistinctWidths
     /\ ValidDirective(last.props)
     /\ last.outcome = Return(JSBool(TRUE)))
    => IF KindOf(last.props) \in {"between", "at"}
       THEN MatchesWithinSpan(last.props, last.onlyRenderAt)
       ELSE MatchesInSomeBand(last.props, last.onlyRenderAt)

\* C10 amended happens: a between directive was admitted although no band
\* of an available breakpoint matches it
C10_Witness ==
    /\ AdmissionAsked
    /\ DistinctWidths
    /\ ValidDirective(last.props)
    /\ KindOf(last.props) = "between"
    /\ last.outcome = Return(JSBool(TRUE))
    /\ ~MatchesInSomeBand(last.props, last.onlyRenderAt)

=============================================================================
